---- MODULE Spec2Model ----
(***************************************************************************)
(* Model of src/lambda.py: the AWS Lambda handler that serves POST /users  *)
(* and GET /users on top of one DynamoDB table.                            *)
(*                                                                         *)
(* Python values are tagged records [t, v]: t is the Python type name and  *)
(* v the payload (a TLA+ string for str, a function from keys to tagged    *)
(* values for dict; a dict also carries its key order, as Python dicts     *)
(* do).  An operation that can raise yields [raised |-> TRUE, exc |-> e]   *)
(* or [raised |-> FALSE, val |-> v].                                       *)
(*                                                                         *)
(* One step of the model is one invocation of lambda_handler.  The table   *)
(* is the only state that survives an invocation; event, result and calls  *)
(* record the last invocation (what came in, what went out, which store    *)
(* calls it made); lastPost is a history variable.  An invocation makes at *)
(* most one store call, so invocations that run side by side act on the    *)
(* table as if one after the other, in the order of their store calls.     *)
(*                                                                         *)
(* The fields of a POST body and the id of a GET are JSON strings, as the  *)
(* handler's comments give them ({"user_id": "123", "name": "John Doe"},   *)
(* ?id=123).  The print statements have no effect on the response or the   *)
(* table and are left out.                                                 *)
(***************************************************************************)
EXTENDS Integers, Sequences, FiniteSets, TLC

VARIABLES
    table,      \* the DynamoDB table: a set of items (attribute maps)
    event,      \* the event of the last invocation
    result,     \* what the last invocation gave back: a response, or an exception
    calls,      \* the store calls the last invocation made, in order
    lastPost    \* history: user id -> the name of its last POST that returned 200

vars == <<table, event, result, calls, lastPost>>

----------------------------------------------------------------------------
(* Python values *)

Str(s) == [t |-> "str", v |-> s]

None == [t |-> "NoneType", v |-> ""]

Dict(keys, f) == [t |-> "dict", v |-> f, keys |-> keys]

EmptyDict == Dict(<< >>, [k \in {} |-> None])

\* d[key] = val on a dict value: a new key goes last, an old one keeps its place
DictSet(d, key, val) ==
    Dict(IF key \in DOMAIN d.v THEN d.keys ELSE Append(d.keys, key),
         [k \in DOMAIN d.v \cup {key} |-> IF k = key THEN val ELSE d.v[k]])

Exception(type, msg) == [type |-> type, msg |-> msg]

NoException == Exception("", "")

Ok(val) == [raised |-> FALSE, val |-> val]

Raise(exc) == [raised |-> TRUE, exc |-> exc]

\* PyGetItem with dict.get in place of the subscript: a missing key gives None
PyGetItem_get(obj, key) ==
    IF obj.t = "dict"
    THEN Ok(IF key \in DOMAIN obj.v THEN obj.v[key] ELSE None)
    ELSE IF obj.t = "NoneType"
    THEN Raise(Exception("TypeError", "'NoneType' object is not subscriptable"))
    ELSE Raise(Exception("TypeError", "string indices must be integers, not 'str'"))

\* obj[key] for a str key
PyGetItem(obj, key) ==
    IF obj.t = "dict"
    THEN IF key \in DOMAIN obj.v
         THEN Ok(obj.v[key])
         ELSE Raise(Exception("KeyError", "'" \o key \o "'"))
    ELSE IF obj.t = "NoneType"
    THEN Raise(Exception("TypeError", "'NoneType' object is not subscriptable"))
    ELSE Raise(Exception("TypeError", "string indices must be integers, not 'str'"))

\* what an f-string puts in place of {x}
PyFormat(x) ==
    CASE x.t = "str" -> x.v
      [] x.t = "NoneType" -> "None"

----------------------------------------------------------------------------
(* json.dumps, for the values the handler passes to it.  Strings are       *)
(* printable ASCII here, so the only escapes are those of " and \.         *)

Quote == "\""

Backslash == "\\"

\* s[i:i+1], for a 0-based i: the character, or "" past the end
Char(s, i) == IF i >= 0 /\ i < Len(s) THEN SubSeq(s, i + 1, i + 1) ELSE ""

\* the escaped form of each character of s, in order (by halves, which keeps
\* the evaluation shallow on long strings)
RECURSIVE Escaped(_)
Escaped(s) ==
    IF Len(s) = 0
    THEN ""
    ELSE IF Len(s) = 1
    THEN (IF s = Quote \/ s = Backslash THEN Backslash \o s ELSE s)
    ELSE Escaped(SubSeq(s, 1, Len(s) \div 2))
            \o Escaped(SubSeq(s, Len(s) \div 2 + 1, Len(s)))

encode_basestring_ascii(s) == Quote \o Escaped(s) \o Quote

RECURSIVE json_dumps(_)
RECURSIVE DumpItems(_, _)
\* the items of dict d from its i-th key on, joined by the item separator ", "
DumpItems(d, i) ==
    IF i > Len(d.keys)
    THEN ""
    ELSE encode_basestring_ascii(d.keys[i]) \o ": " \o json_dumps(d.v[d.keys[i]])
            \o (IF i < Len(d.keys) THEN ", " ELSE "")
            \o DumpItems(d, i + 1)

json_dumps(obj) ==
    CASE obj.t = "str" -> encode_basestring_ascii(obj.v)
      [] obj.t = "NoneType" -> "null"
      [] obj.t = "dict" -> "{" \o DumpItems(obj, 1) \o "}"

----------------------------------------------------------------------------
(* json.loads, as json.decoder does it, for documents made of strings and  *)
(* objects (no numbers, arrays or literals), on one line, with " " as the  *)
(* only whitespace and \" \\ \/ as the only escapes.  A scan yields        *)
(* [raised |-> FALSE, val, end] (end: the index after what was read) or    *)
(* raises JSONDecodeError.                                                 *)

Scanned(val, end) == [raised |-> FALSE, val |-> val, end |-> end]

JSONDecodeError(msg, pos) ==
    Exception("JSONDecodeError",
              msg \o ": line 1 column " \o ToString(pos + 1)
                  \o " (char " \o ToString(pos) \o ")")

RECURSIVE SkipWhitespace(_, _)
SkipWhitespace(s, i) == IF Char(s, i) = " " THEN SkipWhitespace(s, i + 1) ELSE i

\* scanstring's loop (with the C scanner's messages): begin is the index of the
\* opening quote, end the next index to read, acc the characters read so far.
\* Each round reads a chunk: the characters up to the next quote or backslash.
RECURSIVE ScanChunks(_, _, _, _)
ScanChunks(s, begin, end, acc) ==
    LET terminators == {i \in end..(Len(s) - 1) : Char(s, i) \in {Quote, Backslash}}
        stop == CHOOSE i \in terminators : \A j \in terminators : i <= j
        content == acc \o SubSeq(s, end + 1, stop)
        esc == Char(s, stop + 1)
    IN  IF terminators = {}
        THEN Raise(JSONDecodeError("Unterminated string starting at", begin))
        ELSE IF Char(s, stop) = Quote
        THEN Scanned(Str(content), stop + 1)
        ELSE IF esc = ""
        THEN Raise(JSONDecodeError("Unterminated string starting at", begin))
        ELSE IF esc \in {Quote, Backslash, "/"}
        THEN ScanChunks(s, begin, stop + 2, content \o esc)
        ELSE Raise(JSONDecodeError("Invalid \\escape", stop))

\* scanstring(s, end): s[end - 1] is the opening quote
scanstring(s, end) == ScanChunks(s, end - 1, end, "")

RECURSIVE scan_once(_, _)
RECURSIVE ObjectPairs(_, _, _)
\* JSONObject's loop: end is the index after the opening quote of the next key,
\* pairs the dict read so far (a repeated key keeps its last value)
ObjectPairs(s, end, pairs) ==
    LET key == scanstring(s, end)
        colon == SkipWhitespace(s, key.end)
        value == scan_once(s, SkipWhitespace(s, colon + 1))
        after == SkipWhitespace(s, value.end)
        next == SkipWhitespace(s, after + 1)
        sofar == DictSet(pairs, key.val.v, value.val)
    IN  IF key.raised
        THEN key
        ELSE IF Char(s, colon) # ":"
        THEN Raise(JSONDecodeError("Expecting ':' delimiter", colon))
        ELSE IF value.raised
        THEN value
        ELSE IF Char(s, after) = "}"
        THEN Scanned(sofar, after + 1)
        ELSE IF Char(s, after) # ","
        THEN Raise(JSONDecodeError("Expecting ',' delimiter", after))
        ELSE IF Char(s, next) # Quote
        THEN Raise(JSONDecodeError(
                 "Expecting property name enclosed in double quotes", next))
        ELSE ObjectPairs(s, next + 1, sofar)

\* JSONObject((s, end)): s[end - 1] is the opening brace
JSONObject(s, end) ==
    LET first == SkipWhitespace(s, end)
    IN  IF Char(s, first) = "}"
        THEN Scanned(EmptyDict, first + 1)
        ELSE IF Char(s, first) # Quote
        THEN Raise(JSONDecodeError(
                 "Expecting property name enclosed in double quotes", first))
        ELSE ObjectPairs(s, first + 1, EmptyDict)

\* scan_once raises StopIteration(idx) where no value starts; each of its
\* callers turns that into JSONDecodeError("Expecting value", idx)
scan_once(s, idx) ==
    IF Char(s, idx) = Quote
    THEN scanstring(s, idx + 1)
    ELSE IF Char(s, idx) = "{"
    THEN JSONObject(s, idx + 1)
    ELSE Raise(JSONDecodeError("Expecting value", idx))

\* JSONDecoder.decode
decode(s) ==
    LET obj == scan_once(s, SkipWhitespace(s, 0))
        end == SkipWhitespace(s, obj.end)
    IN  IF obj.raised
        THEN obj
        ELSE IF end # Len(s)
        THEN Raise(JSONDecodeError("Extra data", end))
        ELSE Ok(obj.val)

json_loads(s) ==
    IF s.t = "str"
    THEN decode(s.v)
    ELSE Raise(Exception("TypeError",
             "the JSON object must be str, bytes or bytearray, not " \o s.t))

----------------------------------------------------------------------------
(* The table (boto3's Table resource and the DynamoDB table behind it).    *)
(* An item is its attribute map; UserID is the table's key.  A call either *)
(* succeeds or raises one of StoreFailures and then leaves the table as it *)
(* was; which one happens is the caller's environment, passed in as        *)
(* outcome ("ok" or the failure).                                          *)

StoreFailures == {"ThrottlingException", "EndpointConnectionError"}

StoreOutcomes == {"ok"} \cup StoreFailures

\* the exception botocore raises for a failure of the operation op
StoreError(failure, op) ==
    IF failure = "EndpointConnectionError"
    THEN Exception("EndpointConnectionError",
             "Could not connect to the endpoint URL: \"https://dynamodb/\"")
    ELSE Exception("ClientError",
             "An error occurred (" \o failure \o ") when calling the "
                 \o op \o " operation: Rate exceeded")

\* the orders in which a returned item can list its attributes
ItemKeyOrders == {<<"UserID", "Name">>, <<"Name", "UserID">>}

\* put_item that adds the item and keeps the one it should replace
put_item_keep_old(tbl, Item, outcome) ==
    IF outcome = "ok"
    THEN Ok(tbl \cup {Item.v})
    ELSE Raise(StoreError(outcome, "PutItem"))

\* put_item that hides a failure from its caller
put_item_swallow(tbl, Item, outcome) ==
    IF outcome = "ok"
    THEN Ok({i \in tbl : i["UserID"] # Item.v["UserID"]} \cup {Item.v})
    ELSE Ok(tbl)

\* put_item that only creates: it refuses a key the table already holds
put_item_create_only(tbl, Item, outcome) ==
    IF outcome # "ok"
    THEN Raise(StoreError(outcome, "PutItem"))
    ELSE IF \E i \in tbl : i["UserID"] = Item.v["UserID"]
    THEN Raise(StoreError("ConditionalCheckFailedException", "PutItem"))
    ELSE Ok(tbl \cup {Item.v})

\* put_item that leaves the new item alone in the table
put_item_clobber(tbl, Item, outcome) ==
    IF outcome = "ok"
    THEN Ok({Item.v})
    ELSE Raise(StoreError(outcome, "PutItem"))

\* table.put_item(Item=Item): the new item replaces the one with its key
put_item(tbl, Item, outcome) ==
    IF outcome = "ok"
    THEN Ok({i \in tbl : i["UserID"] # Item.v["UserID"]} \cup {Item.v})
    ELSE Raise(StoreError(outcome, "PutItem"))

\* table.get_item(Key=Key): the response holds 'Item' when the key is there
get_item(tbl, Key, outcome, order) ==
    LET found == {i \in tbl : i["UserID"] = Key.v["UserID"]}
        item == CHOOSE i \in found : TRUE
    IN  IF outcome # "ok"
        THEN Raise(StoreError(outcome, "GetItem"))
        ELSE IF found = {}
        THEN Ok(EmptyDict)
        ELSE Ok(DictSet(EmptyDict, "Item",
                 Dict(SelectSeq(order, LAMBDA k : k \in DOMAIN item), item)))

\* the record of one store call, kept in calls
Call(op, arg, outcome) == [op |-> op, arg |-> arg, outcome |-> outcome]

----------------------------------------------------------------------------
(* lambda_handler.  It yields what the invocation gave back (result), the  *)
(* table after it and the store calls it made.                             *)

\* return {'statusCode': statusCode, 'body': body}
Returned(statusCode, body, tbl, made) ==
    [result |-> [raised |-> FALSE, exc |-> NoException,
                 statusCode |-> statusCode, body |-> body],
     table |-> tbl, calls |-> made]

\* an exception no except clause caught leaves the handler
Propagated(exc, tbl, made) ==
    [result |-> [raised |-> TRUE, exc |-> exc, statusCode |-> 0, body |-> ""],
     table |-> tbl, calls |-> made]

\* event['requestContext']['http']['method']
http_method(ev) ==
    LET requestContext == PyGetItem(ev, "requestContext")
        http == PyGetItem(requestContext.val, "http")
    IN  IF requestContext.raised
        THEN requestContext
        ELSE IF http.raised
        THEN http
        ELSE PyGetItem(http.val, "method")

\* json.loads(event['body']), given what event['body'] gave
ParsedBody(raw) == IF raw.raised THEN raw ELSE json_loads(raw.val)

\* body['user_id'] and body['name'], given what json.loads gave
Fields(body) ==
    LET user_id == PyGetItem(body.val, "user_id")
        name == PyGetItem(body.val, "name")
    IN  IF body.raised
        THEN body
        ELSE IF user_id.raised
        THEN user_id
        ELSE IF name.raised
        THEN name
        ELSE Ok([user_id |-> user_id.val, name |-> name.val])

\* Stored with the two attributes of the item swapped
Stored_swapped(fields, tbl, outcome) ==
    LET user_id == fields.val.user_id
        name == fields.val.name
        Item == DictSet(DictSet(EmptyDict, "UserID", name), "Name", user_id)
        put == put_item(tbl, Item, outcome)
        made == <<Call("put_item", Item.v, outcome)>>
    IN  IF fields.raised
        THEN Returned(500, json_dumps(Str(fields.exc.msg)), tbl, << >>)
        ELSE IF put.raised
        THEN Returned(500, json_dumps(Str(put.exc.msg)), tbl, made)
        ELSE Returned(200,
                 json_dumps(Str("User " \o PyFormat(name) \o " saved successfully")),
                 put.val, made)

\* Stored with a second put_item after a failed one
Stored_retry(fields, tbl, outcome) ==
    LET user_id == fields.val.user_id
        name == fields.val.name
        Item == DictSet(DictSet(EmptyDict, "UserID", user_id), "Name", name)
        put == put_item(tbl, Item, outcome)
        made == <<Call("put_item", Item.v, outcome)>>
    IN  IF fields.raised
        THEN Returned(500, json_dumps(Str(fields.exc.msg)), tbl, << >>)
        ELSE IF put.raised
        THEN Returned(500, json_dumps(Str(put.exc.msg)), tbl, made \o made)
        ELSE Returned(200,
                 json_dumps(Str("User " \o PyFormat(name) \o " saved successfully")),
                 put.val, made)

\* the rest of the try block, and the except clause, given what the three
\* statements before put_item gave
Stored(fields, tbl, outcome) ==
    LET user_id == fields.val.user_id
        name == fields.val.name
        Item == DictSet(DictSet(EmptyDict, "UserID", user_id), "Name", name)
        put == put_item(tbl, Item, outcome)
        made == <<Call("put_item", Item.v, outcome)>>
    IN  IF fields.raised
        THEN Returned(500, json_dumps(Str(fields.exc.msg)), tbl, << >>)
        ELSE IF put.raised
        THEN Returned(500, json_dumps(Str(put.exc.msg)), tbl, made)
        ELSE Returned(200,
                 json_dumps(Str("User " \o PyFormat(name) \o " saved successfully")),
                 put.val, made)

\* the branch for POST: the try block and its except clause
lambda_handler_POST(ev, tbl, outcome) ==
    Stored(Fields(ParsedBody(PyGetItem(ev, "body"))), tbl, outcome)

\* lambda_handler_GET whose except clause answers 404
lambda_handler_GET_except_404(ev, tbl, outcome, order) ==
    LET params == PyGetItem(ev, "queryStringParameters")
        user_id == IF params.raised THEN params ELSE PyGetItem(params.val, "id")
        Key == DictSet(EmptyDict, "UserID", user_id.val)
        response == IF user_id.raised THEN user_id
                    ELSE get_item(tbl, Key, outcome, order)
        made == IF user_id.raised THEN << >> ELSE <<Call("get_item", Key.v, outcome)>>
    IN  IF response.raised
        THEN Returned(404, json_dumps(Str(response.exc.msg)), tbl, made)
        ELSE IF "Item" \in DOMAIN response.val.v
        THEN Returned(200, json_dumps(response.val.v["Item"]), tbl, made)
        ELSE Returned(404,
                 json_dumps(Str("User " \o PyFormat(user_id.val) \o " not found")),
                 tbl, made)

\* the branch for GET: the try block and its except clause
lambda_handler_GET(ev, tbl, outcome, order) ==
    LET params == PyGetItem(ev, "queryStringParameters")
        user_id == IF params.raised THEN params ELSE PyGetItem(params.val, "id")
        Key == DictSet(EmptyDict, "UserID", user_id.val)
        response == IF user_id.raised THEN user_id
                    ELSE get_item(tbl, Key, outcome, order)
        made == IF user_id.raised THEN << >> ELSE <<Call("get_item", Key.v, outcome)>>
    IN  IF response.raised
        THEN Returned(500, json_dumps(Str(response.exc.msg)), tbl, made)
        ELSE IF "Item" \in DOMAIN response.val.v
        THEN Returned(200, json_dumps(response.val.v["Item"]), tbl, made)
        ELSE Returned(404,
                 json_dumps(Str("User " \o PyFormat(user_id.val) \o " not found")),
                 tbl, made)

\* lambda_handler that takes PUT for POST
lambda_handler_put_as_post(ev, tbl, outcome, order) ==
    LET method == http_method(ev)
    IN  IF method.raised
        THEN Propagated(method.exc, tbl, << >>)
        ELSE IF method.val \in {Str("POST"), Str("PUT")}
        THEN lambda_handler_POST(ev, tbl, outcome)
        ELSE IF method.val = Str("GET")
        THEN lambda_handler_GET(ev, tbl, outcome, order)
        ELSE Returned(400, json_dumps(Str("Invalid HTTP method")), tbl, << >>)

lambda_handler(ev, tbl, outcome, order) ==
    LET method == http_method(ev)
    IN  IF method.raised
        THEN Propagated(method.exc, tbl, << >>)
        ELSE IF method.val = Str("POST")
        THEN lambda_handler_POST(ev, tbl, outcome)
        ELSE IF method.val = Str("GET")
        THEN lambda_handler_GET(ev, tbl, outcome, order)
        ELSE Returned(400, json_dumps(Str("Invalid HTTP method")), tbl, << >>)

----------------------------------------------------------------------------
(* The events the model invokes the handler with. *)

UserIds == {"1", "2"}

Names == {"A", "B\"\\"}

\* the ids a GET asks for: the ids POSTs write, and one no POST writes
QueryIds == UserIds \cup {"3"}

\* stands for a key the event does not have
Absent == [t |-> "absent", v |-> ""]

With(d, key, val) == IF val = Absent THEN d ELSE DictSet(d, key, val)

\* the body a client sends for {user_id, name}
BodyOf(user_id, name) ==
    json_dumps(DictSet(DictSet(EmptyDict, "user_id", Str(user_id)), "name", Str(name)))

\* POST bodies that carry both fields, each with the fields it carries
ValidBodies ==
    {[text |-> BodyOf(u, n), user_id |-> u, name |-> n] : u \in UserIds, n \in Names}
        \cup {[text |-> "{\"name\":\"A\",\"user_id\":\"2\"}", user_id |-> "2", name |-> "A"],
              [text |-> " { \"user_id\" : \"1\" , \"name\" : \"A\" , \"age\" : \"7\\/8\" } ",
               user_id |-> "1", name |-> "A"],
              [text |-> "{\"user_id\": \"1\", \"name\": \"A\", \"name\": \"B\\\"\\\\\"}",
               user_id |-> "1", name |-> "B\"\\"]}

\* POST bodies that are not JSON
MalformedBodies ==
    {"", "not json", "{\"user_id\": \"1\", \"name\": \"A\"", "{\"user_id\": \"1\",}",
     "{\"user_id\" \"1\"}", "{\"user_id\": \"1\"} x", "{\"name\": \"\\q\"}"}

\* POST bodies that are JSON and lack user_id or name
IncompleteBodies ==
    {"{}", "{\"user_id\": \"1\"}", "{\"name\": \"A\"}", "{\"id\": \"1\", \"Name\": \"A\"}",
     "\"user_id\""}

Bodies ==
    {Absent, None} \cup {Str(b.text) : b \in ValidBodies}
        \cup {Str(b) : b \in MalformedBodies \cup IncompleteBodies}

QueryOf(id) == DictSet(EmptyDict, "id", Str(id))

Queries ==
    {Absent, None, EmptyDict, DictSet(EmptyDict, "ID", Str("1"))}
        \cup {QueryOf(id) : id \in QueryIds}

ContextOf(method) ==
    DictSet(EmptyDict, "http", DictSet(EmptyDict, "method", Str(method)))

\* request contexts that hold no method
BrokenContexts == {Absent, None, EmptyDict, DictSet(EmptyDict, "http", EmptyDict)}

\* request contexts whose method is neither POST nor GET
OtherContexts == {ContextOf("DELETE"), ContextOf("PUT"), ContextOf("get")}

Event(requestContext, body, params) ==
    With(With(With(EmptyDict, "requestContext", requestContext), "body", body),
         "queryStringParameters", params)

\* a POST reads the body, a GET the query string, the rest neither: each kind
\* comes with every value of what it reads and two of what it does not
PostEvents ==
    {Event(ContextOf("POST"), b, Absent) : b \in Bodies}
        \cup {Event(ContextOf("POST"), Str(BodyOf("2", "A")), QueryOf("1"))}

GetEvents ==
    {Event(ContextOf("GET"), Absent, q) : q \in Queries}
        \cup {Event(ContextOf("GET"), Str(BodyOf("2", "A")), QueryOf("1"))}

OtherEvents ==
    {Event(c, b[1], b[2]) :
        c \in BrokenContexts \cup OtherContexts,
        b \in {<<Absent, Absent>>, <<Str(BodyOf("1", "A")), QueryOf("1")>>}}

Events == PostEvents \cup GetEvents \cup OtherEvents

----------------------------------------------------------------------------
(* The state machine: one step is one invocation. *)

NoResult == [raised |-> FALSE, exc |-> NoException, statusCode |-> 0, body |-> ""]

NoPosts == [u \in {} |-> [name |-> "", how |-> ""]]

Init ==
    /\ table = {}
    /\ event = EmptyDict
    /\ result = NoResult
    /\ calls = << >>
    /\ lastPost = NoPosts

\* ev carries the method m
IsMethod(ev, m) == http_method(ev) = Ok(Str(m))

\* ev is a POST whose body is one of ValidBodies
ValidPost(ev) ==
    /\ IsMethod(ev, "POST")
    /\ "body" \in DOMAIN ev.v
    /\ \E b \in ValidBodies : ev.v["body"] = Str(b.text)

\* the fields of the body of ev, when it is one of ValidBodies
Sent(ev) == CHOOSE b \in ValidBodies : ev.v["body"] = Str(b.text)

\* lastPost after a POST of {user_id, name} returned 200: the name, and how it
\* relates to the name recorded before
Posted(user_id, name) ==
    [u \in DOMAIN lastPost \cup {user_id} |->
        IF u # user_id
        THEN lastPost[u]
        ELSE [name |-> name,
              how |-> IF u \notin DOMAIN lastPost THEN "created"
                      ELSE IF lastPost[u].name = name THEN "repeated"
                      ELSE "replaced"]]

Invoke(ev, outcome, order) ==
    \E out \in {lambda_handler(ev, table, outcome, order)} :
        /\ event' = ev
        /\ table' = out.table
        /\ result' = out.result
        /\ calls' = out.calls
        /\ lastPost' =
              IF ValidPost(ev) /\ out.result.statusCode = 200
              THEN Posted(Sent(ev).user_id, Sent(ev).name)
              ELSE lastPost

\* a POST request arrives; its put_item, if it gets that far, ends in outcome
Post ==
    \E ev \in PostEvents, outcome \in StoreOutcomes :
        Invoke(ev, outcome, <<"UserID", "Name">>)

\* a GET request arrives; its get_item, if it gets that far, ends in outcome and
\* lists the attributes of the item it found in order
Get ==
    \E ev \in GetEvents, outcome \in StoreOutcomes, order \in ItemKeyOrders :
        Invoke(ev, outcome, order)

\* a request arrives that is neither: no store call, so no outcome to choose
Other ==
    \E ev \in OtherEvents : Invoke(ev, "ok", <<"UserID", "Name">>)

Next == Post \/ Get \/ Other

Spec == Init /\ [][Next]_vars

----------------------------------------------------------------------------
(* Vocabulary of the properties below. *)

\* an invocation has taken place
Invoked == result # NoResult

\* event['queryStringParameters']['id'], as the request gives it
QueryId(ev) ==
    LET params == PyGetItem(ev, "queryStringParameters")
    IN  IF params.raised THEN params ELSE PyGetItem(params.val, "id")

\* ev is a GET for the user id
GetFor(ev, id) == IsMethod(ev, "GET") /\ QueryId(ev) = Ok(Str(id))

\* ev is a POST whose body is not JSON, or is JSON without user_id or name
InvalidPost(ev) ==
    /\ IsMethod(ev, "POST")
    /\ "body" \in DOMAIN ev.v
    /\ \E b \in MalformedBodies \cup IncompleteBodies : ev.v["body"] = Str(b)

\* every store call of made succeeded
StoreOk(made) == \A i \in DOMAIN made : made[i].outcome = "ok"

\* body is the JSON text of the string msg
EncodesString(body, msg) == decode(body) = Ok(Str(msg))

\* body is the JSON text of the record {UserID: user_id, Name: name}
EncodesRecord(body, user_id, name) ==
    LET record == decode(body)
    IN  /\ ~ record.raised
        /\ record.val.t = "dict"
        /\ DOMAIN record.val.v = {"UserID", "Name"}
        /\ record.val.v["UserID"] = Str(user_id)
        /\ record.val.v["Name"] = Str(name)

\* the item the table should hold for a user id of lastPost
Record(u) == [UserID |-> Str(u), Name |-> Str(lastPost[u].name)]

----------------------------------------------------------------------------
(* C1: whatever the event and whatever the store does, lambda_handler     *)
(* returns a response {statusCode, body} and lets no exception out.       *)
C1_NeverRaises ==
    Invoked => /\ ~ result.raised
               /\ result.statusCode \in {200, 400, 404, 500}

(* C2: a POST of a valid {user_id, name} followed by a GET of that        *)
(* user_id, the store calls of both succeeding, gives 200 on the GET with *)
(* a body that is the JSON text of the record {UserID, Name} posted.      *)
C2_PostThenGet ==
    [][(/\ ValidPost(event)
        /\ StoreOk(calls)
        /\ GetFor(event', Sent(event).user_id)
        /\ StoreOk(calls'))
       => /\ result'.statusCode = 200
          /\ EncodesRecord(result'.body, Sent(event).user_id, Sent(event).name)]_vars

C2_Witness ==
    /\ GetFor(event, "1")
    /\ "1" \in DOMAIN lastPost
    /\ lastPost["1"].name = "B\"\\"
    /\ result.statusCode = 200
    /\ result.body \in {"{\"UserID\": \"1\", \"Name\": \"B\\\"\\\\\"}",
                        "{\"Name\": \"B\\\"\\\\\", \"UserID\": \"1\"}"}

(* C3: last write wins.  The table holds one record per UserID, made of   *)
(* UserID and Name alone, and for a user id that POSTs have written it is *)
(* the record of the most recent POST that returned 200; a GET of that id *)
(* whose read succeeds returns 200 with that record.                      *)
C3_LastWriteWins ==
    /\ \A i, j \in table : i["UserID"] = j["UserID"] => i = j
    /\ \A i \in table : DOMAIN i = {"UserID", "Name"}
    /\ \A u \in DOMAIN lastPost : Record(u) \in table
    /\ \A u \in DOMAIN lastPost :
           (GetFor(event, u) /\ StoreOk(calls))
               => /\ result.statusCode = 200
                  /\ EncodesRecord(result.body, u, lastPost[u].name)

C3_Witness ==
    /\ GetFor(event, "1")
    /\ "1" \in DOMAIN lastPost
    /\ lastPost["1"].how = "replaced"
    /\ lastPost["1"].name = "A"
    /\ result.statusCode = 200
    /\ EncodesRecord(result.body, "1", "A")

(* C4: a GET of an id that no POST has written, whose read succeeds,      *)
(* returns 404 with the JSON text of "User {id} not found"; and 404 is    *)
(* returned in no other case.                                             *)
C4_NotFound ==
    /\ \A id \in QueryIds :
           (GetFor(event, id) /\ StoreOk(calls) /\ id \notin DOMAIN lastPost)
               => /\ result.statusCode = 404
                  /\ EncodesString(result.body, "User " \o id \o " not found")
    /\ result.statusCode = 404
           => \E id \in QueryIds :
                  /\ GetFor(event, id)
                  /\ id \notin DOMAIN lastPost
                  /\ calls = <<Call("get_item", [UserID |-> Str(id)], "ok")>>

C4_Witness ==
    /\ GetFor(event, "2")
    /\ "1" \in DOMAIN lastPost
    /\ "2" \notin DOMAIN lastPost
    /\ result.statusCode = 404
    /\ result.body = "\"User 2 not found\""

(* C5: a validation failure is answered 500: a POST whose body is not     *)
(* JSON or lacks user_id or name, and a GET whose query parameters are    *)
(* absent or lack id.                                                     *)
C5_ValidationIs500 ==
    /\ InvalidPost(event) => result.statusCode = 500
    /\ (IsMethod(event, "GET") /\ QueryId(event).raised) => result.statusCode = 500

C5_Witness ==
    /\ IsMethod(event, "POST")
    /\ "body" \in DOMAIN event.v
    /\ event.v["body"] = Str("{\"user_id\": \"1\"}")
    /\ result.statusCode = 500
    /\ result.body = "\"'name'\""

(* C6: a request whose method is neither GET nor POST is answered 400     *)
(* with the JSON text of "Invalid HTTP method", whatever its body and     *)
(* query parameters and whatever the table holds.                         *)
C6_OtherMethodIs400 ==
    (/\ ~ http_method(event).raised
     /\ http_method(event).val \notin {Str("POST"), Str("GET")})
        => /\ result.statusCode = 400
           /\ EncodesString(result.body, "Invalid HTTP method")

C6_Witness ==
    /\ IsMethod(event, "PUT")
    /\ "body" \in DOMAIN event.v
    /\ "queryStringParameters" \in DOMAIN event.v
    /\ table # {}
    /\ result.statusCode = 400
    /\ result.body = "\"Invalid HTTP method\""

(* C7: a store call that fails gives 500 with the JSON text of the        *)
(* error's message, never 200 or 404; and a POST returns 200 only after   *)
(* a put_item that succeeded.                                             *)
C7_StoreFailureIs500 ==
    /\ \A i \in DOMAIN calls :
           calls[i].outcome # "ok"
               => /\ result.statusCode = 500
                  /\ EncodesString(result.body,
                         StoreError(calls[i].outcome,
                             IF calls[i].op = "put_item" THEN "PutItem" ELSE "GetItem").msg)
    /\ (IsMethod(event, "POST") /\ result.statusCode = 200)
           => /\ Len(calls) = 1
              /\ calls[1].op = "put_item"
              /\ calls[1].outcome = "ok"

C7_Witness ==
    /\ ValidPost(event)
    /\ Len(calls) = 1
    /\ calls[1].outcome = "EndpointConnectionError"
    /\ result.statusCode = 500
    /\ result.body = "\"Could not connect to the endpoint URL: \\\"https://dynamodb/\\\"\""

(* C8: POST is idempotent.  A POST of the same user_id and name as the    *)
(* successful POST before it, its write succeeding too, leaves the table  *)
(* as the first left it and returns the same response.                    *)
C8_PostIdempotent ==
    [][(/\ ValidPost(event)
        /\ Len(calls) = 1
        /\ StoreOk(calls)
        /\ ValidPost(event')
        /\ Sent(event').user_id = Sent(event).user_id
        /\ Sent(event').name = Sent(event).name
        /\ StoreOk(calls'))
       => /\ table' = table
          /\ result' = result]_vars

C8_Witness ==
    /\ ValidPost(event)
    /\ result.statusCode = 200
    /\ lastPost[Sent(event).user_id].how = "repeated"
    /\ Cardinality(table) = 2

(* C9, as first stated: every POST and every GET makes exactly one store  *)
(* call, whatever its body or query parameters.                           *)
C9_ExactlyOneCall ==
    (IsMethod(event, "POST") \/ IsMethod(event, "GET")) => Len(calls) = 1

(* C9, amended: a POST or GET makes at most one store call and never a    *)
(* second: one put_item when the POST body yields user_id and name, one   *)
(* get_item when the GET query yields id, and none when that extraction   *)
(* fails.                                                                 *)
C9_AtMostOneCall ==
    /\ IsMethod(event, "POST")
           => /\ Len(calls) <= 1
              /\ \A i \in DOMAIN calls : calls[i].op = "put_item"
              /\ ValidPost(event) => Len(calls) = 1
              /\ (InvalidPost(event) \/ PyGetItem(event, "body").raised) => Len(calls) = 0
    /\ IsMethod(event, "GET")
           => /\ Len(calls) <= 1
              /\ \A i \in DOMAIN calls : calls[i].op = "get_item"
              /\ Len(calls) = 1 <=> ~ QueryId(event).raised

C9_Witness ==
    /\ ValidPost(event)
    /\ result.statusCode = 500
    /\ calls = <<Call("put_item", [UserID |-> Str("1"), Name |-> Str("A")],
                      "ThrottlingException")>>

(* C10: frame.  The table changes only in an invocation that is a POST    *)
(* whose body yields user_id and name, and then only in the record of     *)
(* that user_id; no invocation removes the record of any UserID.          *)
C10_Frame ==
    [][/\ table' # table
           => /\ ValidPost(event')
              /\ \A i \in (table \ table') \cup (table' \ table) :
                     i["UserID"] = Str(Sent(event').user_id)
       /\ \A i \in table : \E j \in table' : j["UserID"] = i["UserID"]]_vars

C10_Witness ==
    /\ ValidPost(event)
    /\ Sent(event).user_id = "2"
    /\ "2" \in DOMAIN lastPost
    /\ lastPost["2"].how = "replaced"
    /\ [UserID |-> Str("1"), Name |-> Str("A")] \in table
    /\ [UserID |-> Str("2"), Name |-> Str("B\"\\")] \in table

====
